---- MODULE Spec2Model ----
(***************************************************************************)
(* Model of 1_Prover/src/circom.rs: circom_verify, circom_prove,           *)
(* circom_create, generate_circom_main, number_of_draws and step.          *)
(*                                                                         *)
(* rug::Float values are modelled as correctly rounded binary floating     *)
(* point numbers <<m, e>> of value m * 2^e whose mantissa m has exactly    *)
(* `precision` bits (or m = 0), every operation rounding to nearest, ties  *)
(* to even, as MPFR does.                                                  *)
(***************************************************************************)
EXTENDS Integers, Sequences, FiniteSets, TLC

\* ------------------------------------------------------------------ bounds
MaxTraceLength == 8
MaxBlowup == 8
MaxFolding == 4
MaxRemainder == 4
MaxQueries == 3
MaxSecurity == 3
MaxDraws == 12
MaxPubInputs == 2

\* --------------------------------------------------- program constants
\* size of the serialized context in f256 field elements
ContextSize == 2
\* width of the u128 arguments of step
U128Bits == 128

\* ------------------------------------------------------ integer helpers
RECURSIVE Pow2(_)
Pow2(k) == IF k <= 0 THEN 1 ELSE 2 * Pow2(k - 1)

RECURSIVE is_power_of_two(_)
is_power_of_two(n) ==
    n >= 1 /\ (n = 1 \/ (n % 2 = 0 /\ is_power_of_two(n \div 2)))

RECURSIVE trailing_zeros(_)
trailing_zeros(n) == IF n % 2 = 1 THEN 0 ELSE 1 + trailing_zeros(n \div 2)

\* winterfell::math::log2: asserts that n is a power of two; -1 stands for
\* the panic of that assertion
log2(n) == IF n >= 1 /\ is_power_of_two(n) THEN trailing_zeros(n) ELSE -1

\* ------------------------------------------------------ rug::Float
FZero == <<0, 0>>

RECURSIVE ScaleUp(_, _, _, _)
\* doubles n until n / d >= lo
ScaleUp(n, d, e, lo) ==
    IF n >= lo * d THEN <<n, d, e>> ELSE ScaleUp(2 * n, d, e - 1, lo)

RECURSIVE ScaleDown(_, _, _, _)
\* doubles d until n / d < hi
ScaleDown(n, d, e, hi) ==
    IF n < hi * d THEN <<n, d, e>> ELSE ScaleDown(n, 2 * d, e + 1, hi)

\* (n / d) * 2^e rounded to p bits, to nearest, ties to even
Round(n, d, e, p) ==
    IF n = 0 THEN FZero
    ELSE LET lo == Pow2(p - 1)
             hi == 2 * lo
             u == ScaleUp(n, d, e, lo)
             s == ScaleDown(u[1], u[2], u[3], hi)
             q == s[1] \div s[2]
             r == s[1] % s[2]
             up == (2 * r > s[2]) \/ (2 * r = s[2] /\ q % 2 = 1)
             m == IF up THEN q + 1 ELSE q
         IN  IF m = hi THEN <<lo, s[3] + 1>> ELSE <<m, s[3]>>

\* Float::with_val(precision, k) for an unsigned integer k
with_val(p, k) == Round(k, 1, 0, p)

FDiv(a, b, p) == IF a[1] = 0 THEN FZero ELSE Round(a[1], b[1], a[2] - b[2], p)

FMul(a, b, p) ==
    IF a[1] = 0 \/ b[1] = 0 THEN FZero ELSE Round(a[1] * b[1], 1, a[2] + b[2], p)

\* both operands have p-bit mantissas: an operand more than p + 1 binary
\* places below the other is under a quarter of its last place
FAdd(a, b, p) ==
    IF a[1] = 0 THEN b
    ELSE IF b[1] = 0 THEN a
    ELSE IF a[2] - b[2] > p + 1 THEN a
    ELSE IF b[2] - a[2] > p + 1 THEN b
    ELSE IF a[2] >= b[2]
         THEN Round(a[1] * Pow2(a[2] - b[2]) + b[1], 1, b[2], p)
         ELSE Round(b[1] * Pow2(b[2] - a[2]) + a[1], 1, a[2], p)

\* a >= 1
FGeOne(a) == a[1] # 0 /\ (a[2] >= 0 \/ a[1] >= Pow2(-a[2]))

\* 1 - a for 0 <= a < 1, rounded; an operand below 2^-(p+2) is absorbed
OneMinus(a, p) ==
    IF a[1] = 0 THEN with_val(p, 1)
    ELSE IF -a[2] > 2 * p + 2 THEN with_val(p, 1)
    ELSE Round(Pow2(-a[2]) - a[1], Pow2(-a[2]), 0, p)

\* a > 2^(-s) for a >= 0
FGtPow(a, s) ==
    /\ a[1] # 0
    /\ IF a[2] + s >= 0 THEN a[1] * Pow2(a[2] + s) > 1
       ELSE a[1] > Pow2(-(a[2] + s))

\* ------------------------------------------------------ step
\* stands for the panic of an arithmetic overflow check
Panicked == <<-1, 0>>

\* Float::with_val(precision, lde_domain_size - x): when x exceeds
\* lde_domain_size the u128 subtraction overflows; a build with overflow
\* checks panics, a build without them wraps to 2^128 - (x - lde_domain_size),
\* which rounds to 2^128 at any precision below 127 - log2(x) bits
domain_minus_x(x, lde_domain_size, p, build) ==
    IF x <= lde_domain_size THEN with_val(p, lde_domain_size - x)
    ELSE IF build = "debug" THEN Panicked
    ELSE <<Pow2(p - 1), U128Bits - (p - 1)>>

\* the value step computes for (x, n), n > 0, x # num_queries, from
\* a = step(x + 1, n - 1) and b = step(x, n - 1)
step_num(x, a, b, lde_domain_size, p, build) ==
    LET dx == domain_minus_x(x, lde_domain_size, p, build)
        d  == with_val(p, lde_domain_size)
    IN  IF a = Panicked \/ b = Panicked \/ dx = Panicked THEN Panicked
        ELSE FAdd(FMul(FDiv(dx, d, p), a, p),
                  FMul(FDiv(with_val(p, x), d, p), b, p), p)

RECURSIVE memo_row(_, _, _, _, _, _)
\* the entries (x, n), (x + 1, n), ..., (num_queries, n) of the memo table,
\* n > 0, from the entries prev of n - 1; entry (x, .) is at index x + 1
memo_row(x, prev, num_queries, lde_domain_size, p, build) ==
    IF x = num_queries THEN <<with_val(p, 1)>>
    ELSE <<step_num(x, prev[x + 2], prev[x + 1], lde_domain_size, p, build)>>
             \o memo_row(x + 1, prev, num_queries, lde_domain_size, p, build)

RECURSIVE memo(_, _, _, _, _)
\* the entries (0, n), ..., (num_queries, n) of the memo table: the value
\* step returns for each of them
memo(n, num_queries, lde_domain_size, security, build) ==
    LET p == security + 2
    IN  IF n = 0
        THEN [i \in 1..(num_queries + 1) |->
                 IF i - 1 = num_queries THEN with_val(p, 1) ELSE with_val(p, 0)]
        ELSE memo_row(0, memo(n - 1, num_queries, lde_domain_size, security, build),
                      num_queries, lde_domain_size, p, build)

step(x, n, num_queries, lde_domain_size, security, build) ==
    memo(n, num_queries, lde_domain_size, security, build)[x + 1]

\* the loop condition of number_of_draws: 1 - st > 2^(-security)
draws_continue(st, security) ==
    /\ ~FGeOne(st)
    /\ FGtPow(OneMinus(st, security + 2), security)

\* ------------------------------------------------------ paths and results
FinalPtau == "final.ptau"
AirCircom == "circuits/air/<circuit_name>.circom"
OutDir == "target/circom/<circuit_name>"
VerifierCircom == "target/circom/<circuit_name>/verifier.circom"
InputJson == "target/circom/<circuit_name>/input.json"
VerificationKey == "target/circom/<circuit_name>/verification_key.json"
PublicJson == "target/circom/<circuit_name>/public.json"
ProofJson == "target/circom/<circuit_name>/proof.json"

NoResult == [kind |-> "none", detail |-> ""]
Ok == [kind |-> "Ok", detail |-> ""]
Err(kind, detail) == [kind |-> kind, detail |-> detail]

VARIABLES
    build,            \* "debug" (debug_assertions, overflow checks) or "release"
    op,               \* the public function that was called
    pc,               \* position in it
    fs,               \* the files and directories that exist
    calls,            \* the external effects performed so far, in order
    result,           \* what the function returned
    proof,            \* what prover.prove returned: "none", "valid", "invalid"
    proof_options,    \* WinterCircomProofOptions
    lde_domain_size,  \* local of generate_circom_main
    fri_tree_depths,  \* local of generate_circom_main
    num_queries,      \* argument of number_of_draws
    security,         \* argument of number_of_draws
    num_draws,        \* local of number_of_draws
    num_pub_inputs,   \* AIR::PublicInputs::NUM_PUB_INPUTS
    verifier_circom   \* the arguments written to verifier.circom

vars == <<build, op, pc, fs, calls, result, proof, proof_options,
          lde_domain_size, fri_tree_depths, num_queries, security, num_draws,
          num_pub_inputs, verifier_circom>>

mainVars == <<proof_options, lde_domain_size, fri_tree_depths, num_queries,
              security, num_draws, num_pub_inputs, verifier_circom>>

NoOptions == [trace_length |-> 0, lde_blowup_factor |-> 0,
              fri_folding_factor |-> 0, fri_max_remainder_size |-> 0]

\* the option records a caller can pass: the struct is built without
\* validation; a zero blowup factor (division by zero) and a blowup factor
\* of one are left out
ProofOptionsSet ==
    [trace_length : 1..MaxTraceLength,
     lde_blowup_factor : 2..MaxBlowup,
     fri_folding_factor : 1..MaxFolding,
     fri_max_remainder_size : 1..MaxRemainder]

Init ==
    /\ build \in {"debug", "release"}
    /\ op = "none"
    /\ pc = "idle"
    /\ fs = {}
    /\ calls = <<>>
    /\ result = NoResult
    /\ proof = "none"
    /\ proof_options = NoOptions
    /\ lde_domain_size = 0
    /\ fri_tree_depths = <<>>
    /\ num_queries = 0
    /\ security = 0
    /\ num_draws = 0
    /\ num_pub_inputs = 0
    /\ verifier_circom = <<>>

\* utils::check_file: an error naming the path when the file is absent
check_file(path) == IF path \in fs THEN Ok ELSE Err("MissingFile", path)

Return(r) == /\ pc' = "returned"
             /\ result' = r

\* ------------------------------------------------------ circom_verify
VerifyStart ==
    /\ pc = "idle"
    /\ \E present \in SUBSET {VerificationKey, PublicJson, ProofJson} :
           fs' = present
    /\ op' = "circom_verify"
    /\ pc' = "verify_key"
    /\ UNCHANGED <<build, calls, result, proof>>
    /\ UNCHANGED mainVars

VerifyCheckKey ==
    /\ pc = "verify_key"
    /\ IF check_file(VerificationKey) = Ok
       THEN pc' = "verify_public" /\ UNCHANGED result
       ELSE Return(check_file(VerificationKey))
    /\ UNCHANGED <<build, op, fs, calls, proof>>
    /\ UNCHANGED mainVars

\* VerifyCheckPublic without the check of public.json
VerifyCheckPublic_unchecked ==
    /\ pc = "verify_public"
    /\ pc' = "verify_proof"
    /\ UNCHANGED <<build, op, fs, calls, proof, result>>
    /\ UNCHANGED mainVars

VerifyCheckPublic ==
    /\ pc = "verify_public"
    /\ IF check_file(PublicJson) = Ok
       THEN pc' = "verify_proof" /\ UNCHANGED result
       ELSE Return(check_file(PublicJson))
    /\ UNCHANGED <<build, op, fs, calls, proof>>
    /\ UNCHANGED mainVars

VerifyCheckProof ==
    /\ pc = "verify_proof"
    /\ IF check_file(ProofJson) = Ok
       THEN pc' = "verify_command" /\ UNCHANGED result
       ELSE Return(check_file(ProofJson))
    /\ UNCHANGED <<build, op, fs, calls, proof>>
    /\ UNCHANGED mainVars

\* command_execution(Executable::SnarkJS, ["g16v", ...]): its outcome is
\* the tool's
VerifyCommand ==
    /\ pc = "verify_command"
    /\ calls' = Append(calls, "snarkjs g16v")
    /\ \E ok \in BOOLEAN :
           Return(IF ok THEN Ok ELSE Err("CommandError", "snarkjs g16v"))
    /\ UNCHANGED <<build, op, fs, proof>>
    /\ UNCHANGED mainVars

\* ------------------------------------------------------ circom_prove
\* assert_eq!(prover.options().hash_fn(), HashFunction::Poseidon)
ProveStart ==
    /\ pc = "idle"
    /\ op' = "circom_prove"
    /\ \E hash_fn \in {"Poseidon", "Blake3_256"} :
           pc' = IF hash_fn = "Poseidon" THEN "prove_build" ELSE "panicked"
    /\ UNCHANGED <<build, fs, calls, result, proof>>
    /\ UNCHANGED mainVars

\* prover.prove(trace): an error, or a proof that verification accepts or
\* rejects
ProveBuild ==
    /\ pc = "prove_build"
    /\ \E outcome \in {"error", "valid", "invalid"} :
           IF outcome = "error"
           THEN Return(Err("ProverError", "")) /\ UNCHANGED proof
           ELSE /\ proof' = outcome
                /\ pc' = IF build = "debug" THEN "prove_verify" ELSE "prove_json"
                /\ UNCHANGED result
    /\ UNCHANGED <<build, op, fs, calls>>
    /\ UNCHANGED mainVars

\* ProveVerify with the result of winterfell::verify dropped
ProveVerify_ignored ==
    /\ pc = "prove_verify"
    /\ pc' = "prove_json"
    /\ UNCHANGED <<build, op, fs, calls, proof, result>>
    /\ UNCHANGED mainVars

\* #[cfg(debug_assertions)] winterfell::verify(proof.clone(), ...)
ProveVerify ==
    /\ pc = "prove_verify"
    /\ IF proof = "valid"
       THEN pc' = "prove_json" /\ UNCHANGED result
       ELSE Return(Err("InvalidProof", ""))
    /\ UNCHANGED <<build, op, fs, calls, proof>>
    /\ UNCHANGED mainVars

ProveJson ==
    /\ pc = "prove_json"
    /\ calls' = Append(calls, "proof_to_json")
    /\ pc' = "prove_mkdir"
    /\ UNCHANGED <<build, op, fs, result, proof>>
    /\ UNCHANGED mainVars

ProveMkdir ==
    /\ pc = "prove_mkdir"
    /\ \E ok \in BOOLEAN :
           IF ok
           THEN /\ fs' = fs \cup {OutDir}
                /\ calls' = Append(calls, "create_dir_all")
                /\ pc' = "prove_create"
                /\ UNCHANGED result
           ELSE /\ Return(Err("IoError", "creating Circom output directory"))
                /\ UNCHANGED <<fs, calls>>
    /\ UNCHANGED <<build, op, proof>>
    /\ UNCHANGED mainVars

ProveCreate ==
    /\ pc = "prove_create"
    /\ \E ok \in BOOLEAN :
           IF ok
           THEN /\ fs' = fs \cup {InputJson}
                /\ calls' = Append(calls, "File::create input.json")
                /\ pc' = "prove_write"
                /\ UNCHANGED result
           ELSE /\ Return(Err("IoError", "creating input.json"))
                /\ UNCHANGED <<fs, calls>>
    /\ UNCHANGED <<build, op, proof>>
    /\ UNCHANGED mainVars

ProveWrite ==
    /\ pc = "prove_write"
    /\ \E ok \in BOOLEAN :
           IF ok
           THEN /\ calls' = Append(calls, "write input.json")
                /\ Return(Ok)
           ELSE /\ Return(Err("IoError", "writing input.json"))
                /\ UNCHANGED calls
    /\ UNCHANGED <<build, op, fs, proof>>
    /\ UNCHANGED mainVars

\* ------------------------------------------------------ circom_create
CreateStart ==
    /\ pc = "idle"
    /\ \E present \in SUBSET {FinalPtau, AirCircom} : fs' = present
    /\ \E o \in ProofOptionsSet : proof_options' = o
    /\ op' = "circom_create"
    /\ pc' = "create_ptau"
    /\ UNCHANGED <<build, calls, result, proof, lde_domain_size,
                   fri_tree_depths, num_queries, security, num_draws,
                   num_pub_inputs, verifier_circom>>

\* CreateCheckPtau without the check of final.ptau
CreateCheckPtau_unchecked ==
    /\ pc = "create_ptau"
    /\ pc' = "create_air"
    /\ UNCHANGED <<build, op, fs, calls, proof, result>>
    /\ UNCHANGED mainVars

CreateCheckPtau ==
    /\ pc = "create_ptau"
    /\ IF check_file(FinalPtau) = Ok
       THEN pc' = "create_air" /\ UNCHANGED result
       ELSE Return(check_file(FinalPtau))
    /\ UNCHANGED <<build, op, fs, calls, proof>>
    /\ UNCHANGED mainVars

CreateCheckAir ==
    /\ pc = "create_air"
    /\ IF check_file(AirCircom) = Ok
       THEN pc' = "create_mkdir" /\ UNCHANGED result
       ELSE Return(check_file(AirCircom))
    /\ UNCHANGED <<build, op, fs, calls, proof>>
    /\ UNCHANGED mainVars

\* create_dir_all, then the call of generate_circom_main up to its loop
CreateMkdir ==
    /\ pc = "create_mkdir"
    /\ \E ok \in BOOLEAN :
           IF ok
           THEN /\ fs' = fs \cup {OutDir}
                /\ calls' = Append(calls, "create_dir_all")
                /\ fri_tree_depths' = <<>>
                /\ lde_domain_size' = proof_options.trace_length
                                        * proof_options.lde_blowup_factor
                /\ pc' = "fold"
                /\ UNCHANGED result
           ELSE /\ Return(Err("IoError", "creating Circom output directory"))
                /\ UNCHANGED <<fs, calls, fri_tree_depths, lde_domain_size>>
    /\ UNCHANGED <<build, op, proof, proof_options, num_queries, security,
                   num_draws, num_pub_inputs, verifier_circom>>

\* ------------------------------------------------------ generate_circom_main
\* one iteration of the FRI tree depths loop
FoldStep ==
    /\ pc = "fold"
    /\ lde_domain_size > proof_options.fri_max_remainder_size
    /\ LET d == lde_domain_size \div proof_options.lde_blowup_factor
       IN  /\ lde_domain_size' = d
           /\ IF log2(d) = -1
              THEN pc' = "panicked" /\ UNCHANGED fri_tree_depths
              ELSE pc' = "fold" /\ fri_tree_depths' = Append(fri_tree_depths, log2(d))
    /\ UNCHANGED <<build, op, fs, calls, result, proof, proof_options,
                   num_queries, security, num_draws, num_pub_inputs,
                   verifier_circom>>

FoldExit ==
    /\ pc = "fold"
    /\ ~(lde_domain_size > proof_options.fri_max_remainder_size)
    /\ pc' = "air_context"
    /\ UNCHANGED <<build, op, fs, calls, result, proof>>
    /\ UNCHANGED mainVars

\* AirContext::new, TraceInfo::new and get_proof_options validate their
\* arguments with assertions of their own
MainAirContext ==
    /\ pc = "air_context"
    /\ \E ok \in BOOLEAN : pc' = IF ok THEN "main_create" ELSE "panicked"
    /\ UNCHANGED <<build, op, fs, calls, result, proof>>
    /\ UNCHANGED mainVars

MainCreate ==
    /\ pc = "main_create"
    /\ \E ok \in BOOLEAN :
           IF ok
           THEN /\ fs' = fs \cup {VerifierCircom}
                /\ calls' = Append(calls, "File::create verifier.circom")
                /\ pc' = "arguments"
                /\ UNCHANGED result
           ELSE /\ Return(Err("IoError", "trying to create circom main file"))
                /\ UNCHANGED <<fs, calls>>
    /\ UNCHANGED <<build, op, proof>>
    /\ UNCHANGED mainVars

\* the call number_of_draws(num_queries, trace_length * fri_folding_factor,
\* 128); the model lets the security argument range over 1..MaxSecurity
nd_lde_domain_size ==
    proof_options.trace_length * proof_options.fri_folding_factor

MainDrawsCall ==
    /\ pc = "arguments"
    /\ \E q \in 0..MaxQueries : num_queries' = q
    /\ \E s \in 1..MaxSecurity : security' = s
    /\ num_draws' = 0
    /\ pc' = "draws"
    /\ UNCHANGED <<build, op, fs, calls, result, proof, proof_options,
                   lde_domain_size, fri_tree_depths, num_pub_inputs,
                   verifier_circom>>

\* ------------------------------------------------------ number_of_draws
\* one iteration of the while loop: evaluate step for the candidate,
\* increment num_draws, test
DrawsIter ==
    /\ pc = "draws"
    /\ num_draws < MaxDraws
    /\ LET st == step(0, num_draws, num_queries, nd_lde_domain_size,
                      security, build)
       IN  IF st = Panicked
           THEN pc' = "panicked" /\ UNCHANGED num_draws
           ELSE /\ num_draws' = num_draws + 1
                /\ pc' = IF draws_continue(st, security)
                         THEN "draws" ELSE "arguments_rest"
    /\ UNCHANGED <<build, op, fs, calls, result, proof, proof_options,
                   lde_domain_size, fri_tree_depths, num_queries, security,
                   num_pub_inputs, verifier_circom>>

\* ------------------------------------------------------ the emitted arguments
\* format_fri_tree_depths without the case of the empty vector
format_fri_tree_depths_plain(depths) == depths

\* the formatted fri_tree_depths: "[0]" for an empty vector
format_fri_tree_depths(depths) == IF Len(depths) = 0 THEN <<0>> ELSE depths

\* the comments of the format string, in order
ArgumentNames ==
    <<"addicity", "ce_blowup_factor", "domain_offset", "folding_factor",
      "fri_tree_depth", "grinding_factor", "lde_blowup_factor",
      "num_assertions", "num_draws", "num_fri_layers", "num_pub_coin_seed",
      "num_public_inputs", "num_queries", "num_transition_constraints",
      "trace_length", "trace_width", "tree_depth">>

\* arguments with the context size added to the other public-input argument
arguments_swapped(po, depths, draws, queries, pub_inputs) ==
    <<"E::TWO_ADICITY",
      "air_context.ce_domain_size() / trace_length",
      "E::GENERATOR",
      po.fri_folding_factor,
      format_fri_tree_depths(depths),
      "grinding_factor",
      po.lde_blowup_factor,
      "num_assertions",
      draws,
      Len(depths),
      pub_inputs,
      pub_inputs + ContextSize,
      queries,
      "air_context.num_transition_constraints()",
      po.trace_length,
      "trace_width",
      log2(po.trace_length * po.fri_folding_factor)>>

\* the values of the format arguments, in order; values that come straight
\* from the field, the AIR context or option fields outside the model are
\* written as their expressions
arguments(po, depths, draws, queries, pub_inputs) ==
    <<"E::TWO_ADICITY",
      "air_context.ce_domain_size() / trace_length",
      "E::GENERATOR",
      po.fri_folding_factor,
      format_fri_tree_depths(depths),
      "grinding_factor",
      po.lde_blowup_factor,
      "num_assertions",
      draws,
      Len(depths),
      pub_inputs + ContextSize,
      pub_inputs,
      queries,
      "air_context.num_transition_constraints()",
      po.trace_length,
      "trace_width",
      log2(po.trace_length * po.fri_folding_factor)>>

\* the value emitted at the place of the named parameter
Param(args, name) ==
    args[CHOOSE i \in 1..Len(ArgumentNames) : ArgumentNames[i] = name]

\* the remaining format arguments and the write of the file
MainWrite ==
    /\ pc = "arguments_rest"
    /\ IF log2(nd_lde_domain_size) = -1
       THEN /\ pc' = "panicked"
            /\ UNCHANGED <<calls, result, num_pub_inputs, verifier_circom>>
       ELSE \E n \in 0..MaxPubInputs, ok \in BOOLEAN :
              /\ num_pub_inputs' = n
              /\ IF ok
                 THEN /\ verifier_circom' = arguments(proof_options,
                              fri_tree_depths, num_draws, num_queries, n)
                      /\ calls' = Append(calls, "write verifier.circom")
                      /\ Return(Ok)
                 ELSE /\ Return(Err("IoError",
                                    "trying to write to circom main file"))
                      /\ UNCHANGED <<calls, verifier_circom>>
    /\ UNCHANGED <<build, op, fs, proof, proof_options, lde_domain_size,
                   fri_tree_depths, num_queries, security, num_draws>>

\* ------------------------------------------------------ specification
Next ==
    \/ VerifyStart
    \/ VerifyCheckKey
    \/ VerifyCheckPublic
    \/ VerifyCheckProof
    \/ VerifyCommand
    \/ ProveStart
    \/ ProveBuild
    \/ ProveVerify
    \/ ProveJson
    \/ ProveMkdir
    \/ ProveCreate
    \/ ProveWrite
    \/ CreateStart
    \/ CreateCheckPtau
    \/ CreateCheckAir
    \/ CreateMkdir
    \/ FoldStep
    \/ FoldExit
    \/ MainAirContext
    \/ MainCreate
    \/ MainDrawsCall
    \/ DrawsIter
    \/ MainWrite

Spec == Init /\ [][Next]_vars

\* ------------------------------------------------------ properties
Emitted == verifier_circom # <<>>

InitialDomain == proof_options.trace_length * proof_options.lde_blowup_factor

RECURSIVE ExactlyDivisible(_, _, _)
\* domain divides exactly by folding, repeatedly, down to <= remainder
ExactlyDivisible(domain, folding, remainder) ==
    IF domain <= remainder THEN TRUE
    ELSE /\ domain % folding = 0
         /\ ExactlyDivisible(domain \div folding, folding, remainder)

RECURSIVE Schedule(_, _, _)
\* the schedule of section 4.2: log2 of the domain after each division by
\* the folding factor
Schedule(domain, folding, remainder) ==
    IF domain <= remainder THEN <<>>
    ELSE <<log2(domain \div folding)>>
             \o Schedule(domain \div folding, folding, remainder)

\* C1: when trace_length * blowup_factor divides exactly by folding_factor,
\* repeatedly, down to <= max_remainder_size (all of them powers of two, where
\* log2 is defined), the schedule the loop leaves has one entry per division
\* by the folding factor, each the log2 of the domain after that division.
C1_ScheduleFollowsFoldingFactor ==
    (/\ op = "circom_create"
     /\ pc = "air_context"
     /\ proof_options.fri_folding_factor >= 2
     /\ is_power_of_two(proof_options.fri_folding_factor)
     /\ is_power_of_two(InitialDomain)
     /\ ExactlyDivisible(InitialDomain, proof_options.fri_folding_factor,
                         proof_options.fri_max_remainder_size))
    => fri_tree_depths = Schedule(InitialDomain, proof_options.fri_folding_factor,
                                  proof_options.fri_max_remainder_size)

\* the candidate n ends the loop of number_of_draws
Accepts(n) ==
    ~draws_continue(step(0, n, num_queries, nd_lde_domain_size, security, build),
                    security)

\* C2: for domain_size >= num_queries, number_of_draws returns the first
\* candidate n with 1 - P(0, n) <= 2^-security: n meets the bound, n - 1 does
\* not when n > 0, and the result is 0 when num_queries = 0.
C2_ReturnsMinimalDraws ==
    (pc = "arguments_rest" /\ nd_lde_domain_size >= num_queries)
    => /\ Accepts(num_draws)
       /\ num_draws > 0 => ~Accepts(num_draws - 1)
       /\ num_queries = 0 => num_draws = 0

\* C3: called with domain_size < num_queries, number_of_draws fails fast: it
\* is never found past a candidate draw count, neither still iterating nor
\* returning a count.
C3_FailsFastOnSmallDomain ==
    (pc \in {"draws", "arguments_rest"} /\ nd_lde_domain_size < num_queries)
    => num_draws = 0

\* C4: circom_create checks final.ptau, then the AIR circom file, before
\* anything else: when one of them is missing it returns the missing-file
\* error naming the first missing one, and creates neither the output
\* directory nor verifier.circom.
C4_ChecksBeforeAnyOutput ==
    (op = "circom_create" /\ (FinalPtau \notin fs \/ AirCircom \notin fs))
    => /\ calls = <<>>
       /\ OutDir \notin fs
       /\ VerifierCircom \notin fs
       /\ pc \in {"create_ptau", "create_air", "returned"}
       /\ pc = "returned" =>
             result = Err("MissingFile",
                          IF FinalPtau \notin fs THEN FinalPtau ELSE AirCircom)

C4_Witness ==
    /\ op = "circom_create"
    /\ pc = "returned"
    /\ FinalPtau \notin fs
    /\ result = Err("MissingFile", FinalPtau)

\* C5: in a debug build circom_prove calls proof_to_json and creates the
\* output directory and input.json only for a proof that the prover returned
\* and winterfell::verify accepted; a prover failure returns ProverError and
\* a rejected proof InvalidProof, both before any of these effects.
C5_NoInvalidProofTranslated ==
    (op = "circom_prove" /\ build = "debug")
    => /\ (calls # <<>> \/ fs # {}) => proof = "valid"
       /\ result.kind = "ProverError" => (proof = "none" /\ calls = <<>> /\ fs = {})
       /\ result.kind = "InvalidProof" => (proof = "invalid" /\ calls = <<>> /\ fs = {})
       /\ (pc = "returned" /\ proof = "invalid") => result.kind = "InvalidProof"

C5_Witness ==
    /\ op = "circom_prove"
    /\ build = "debug"
    /\ pc = "returned"
    /\ proof = "invalid"
    /\ result.kind = "InvalidProof"

VerifyInputs == {VerificationKey, PublicJson, ProofJson}

FirstMissingVerifyInput ==
    IF VerificationKey \notin fs THEN VerificationKey
    ELSE IF PublicJson \notin fs THEN PublicJson ELSE ProofJson

\* C6: circom_verify runs the Groth16 verification command only when
\* verification_key.json, public.json and proof.json were all found; when one
\* is missing it returns the missing-file error of the first missing one, in
\* that order, and never runs the command.
C6_CommandOnlyAfterChecks ==
    op = "circom_verify"
    => /\ calls # <<>> => VerifyInputs \subseteq fs
       /\ ~(VerifyInputs \subseteq fs) =>
             /\ pc # "verify_command"
             /\ pc = "returned" =>
                   result = Err("MissingFile", FirstMissingVerifyInput)

C6_Witness ==
    /\ op = "circom_verify"
    /\ pc = "returned"
    /\ VerificationKey \in fs
    /\ PublicJson \notin fs
    /\ result = Err("MissingFile", PublicJson)
    /\ calls = <<>>

\* C7: a loop iteration that starts from a domain size that is not an exact
\* multiple of the divisor ends in an error, it does not append a depth and
\* go on.
C7_NoSilentTruncation ==
    [][(/\ pc = "fold"
        /\ lde_domain_size > proof_options.fri_max_remainder_size
        /\ lde_domain_size % proof_options.lde_blowup_factor # 0)
       => pc' = "panicked"]_vars

\* C8: the emitted depth list is never empty: it is [0], with num_fri_layers
\* 0, when trace_length * blowup_factor <= max_remainder_size, and has
\* num_fri_layers entries otherwise.
C8_DepthListNeverEmpty ==
    Emitted =>
        LET list == Param(verifier_circom, "fri_tree_depth")
            layers == Param(verifier_circom, "num_fri_layers")
        IN  /\ Len(list) >= 1
            /\ IF InitialDomain <= proof_options.fri_max_remainder_size
               THEN list = <<0>> /\ layers = 0
               ELSE Len(list) = layers

C8_Witness ==
    /\ Emitted
    /\ InitialDomain <= proof_options.fri_max_remainder_size
    /\ Param(verifier_circom, "fri_tree_depth") = <<0>>

\* C9 as stated: the emitted num_public_inputs is the AIR-declared
\* public-input count plus 2.
C9_PublicInputsPlusContext ==
    Emitted =>
        Param(verifier_circom, "num_public_inputs") = num_pub_inputs + ContextSize

\* C9 amended: the emitted num_pub_coin_seed is the AIR-declared public-input
\* count plus 2, the emitted num_public_inputs is the AIR-declared count.
C9_SeedIsInputsPlusContext ==
    Emitted =>
        /\ Param(verifier_circom, "num_pub_coin_seed") = num_pub_inputs + ContextSize
        /\ Param(verifier_circom, "num_public_inputs") = num_pub_inputs

C9_Witness ==
    /\ Emitted
    /\ num_pub_inputs >= 1
    /\ Param(verifier_circom, "num_pub_coin_seed") = num_pub_inputs + ContextSize

\* C10: for num_queries >= 1 and domain_size >= num_queries the candidate
\* loop terminates: it never comes to a candidate whose memo table equals
\* the previous candidate's while the loop condition still holds, after which
\* every later candidate computes the same P(0, n) and the loop cannot end.
C10_CandidateLoopTerminates ==
    ~(/\ pc = "draws"
      /\ num_queries >= 1
      /\ nd_lde_domain_size >= num_queries
      /\ num_draws >= 2
      /\ memo(num_draws - 1, num_queries, nd_lde_domain_size, security, build)
           = memo(num_draws - 2, num_queries, nd_lde_domain_size, security, build)
      /\ ~Accepts(num_draws - 1))

====
